---- MODULE Spec2Model ----
(***************************************************************************)
(* Model of the multi-domain workflow orchestrator                         *)
(* (src/extensions/workflows/multi_domain_orchestrator.py) together with   *)
(* the agent registry and the executor interface it drives                 *)
(* (src/extensions/agents/base.py).                                        *)
(*                                                                         *)
(* One behaviour is: some register_agent calls on a fresh AgentRegistry,   *)
(* then one execute_workflow call, followed step by step through the       *)
(* scheduling loop of _execute_workflow_steps: the readiness scan, the     *)
(* creation of the coroutine objects of the wave, the sequential awaits,   *)
(* and the construction of the WorkflowResult on the normal path or in     *)
(* the except handler.                                                     *)
(*                                                                         *)
(* Spec and FairSpec drive the orchestrator with executors of any          *)
(* behaviour (return, fail, raise, wait for a sibling).  BuiltinSpec       *)
(* drives it, over repeated calls, with execute_task of the built-in       *)
(* agents; AgentSpec calls those agents directly; RegistrySpec is the      *)
(* registry alone; BootSpec starts from register_all_agents.  TableSpec    *)
(* and CallsSpec run the built-in table on a registry that also holds      *)
(* agents of the caller's own, once and over several calls; SummarySpec    *)
(* applies the summary to the step_results a call can end with.            *)
(***************************************************************************)
EXTENDS Naturals, Sequences, FiniteSets, TLC

VARIABLES
    _agents,          \* AgentRegistry._agents: name -> registered agent
    _task_history,    \* UrbanZonesAgent._task_history of each registered agent
    workflow_history, \* MultiDomainOrchestrator.workflow_history
    pc,               \* position of the execute_workflow coroutine
    workflow_type,    \* argument of execute_workflow
    workflow_steps,   \* the definition being executed (list of WorkflowStep)
    context,          \* the caller's context argument
    step_results,     \* local of _execute_workflow_steps: step_id -> TaskResult
    completed_steps,  \* local of _execute_workflow_steps: set of step ids
    tasks,            \* local of _execute_workflow_steps: the wave's (step_id, coroutine) list
    running,          \* step id of the coroutine being awaited whose body has started, or None
    blocked_on,       \* sibling the running executor waits for, or None
    invoked,          \* step ids whose executor body has started in this call
    result,           \* the WorkflowResult returned by execute_workflow, or None
    _domain_agents,   \* AgentRegistry._domain_agents: domain -> list of registered agents
    bootstrap,        \* outcome of the register_all_agents() call of the package import
    step_order,       \* insertion order of the keys of step_results (a dict keeps it)
    task_result,      \* outcome of the last direct execute_task call ({} before the first)
    waves,            \* per iteration of the while loop that created a coroutine: the step ids of tasks
    calls             \* number of execute_workflow calls the caller has made

vars == <<_agents, _task_history, workflow_history, pc, workflow_type, workflow_steps, context,
          step_results, completed_steps, tasks, running, blocked_on, invoked, result,
          _domain_agents, bootstrap, step_order, task_result, waves, calls>>

None == "None"

\* the empty dict {}
EmptyDict == [k \in {} |-> None]

(***************************************************************************)
(* Bounds of the model                                                     *)
(***************************************************************************)
\* largest number of dependency ids a step of a generated definition lists
MaxDeps == 2

\* largest number of agents constructed under one name
MaxInstances == 2

\* largest number of results in the history of an agent called directly
MaxHistory == 2

\* largest number of execute_workflow calls of one caller
MaxCalls == 2

(***************************************************************************)
(* WorkflowType and the built-in definitions                               *)
(***************************************************************************)
WorkflowType ==
    {"real_estate_development", "business_expansion", "healthcare_facility",
     "marketing_campaign", "construction_project"}

\* the WorkflowStep dataclass (expected_duration and priority are never read)
WorkflowStep(id, agent, description, deps) ==
    [step_id |-> id, agent_name |-> agent,
     task_description |-> description, dependencies |-> deps]

\* a table whose REAL_ESTATE_DEVELOPMENT entry closes a cycle
_get_workflow_definition_Cyclic(wt) ==
    CASE wt = "real_estate_development" ->
           << WorkflowStep("market_analysis", "real_estate_analyst",
                  "Analyze market conditions and property values for development site",
                  {"construction_planning"}),
              WorkflowStep("construction_planning", "construction_coordinator",
                  "Develop construction timeline and resource requirements",
                  {"market_analysis"}) >>
      [] OTHER -> << >>

\* MultiDomainOrchestrator._get_workflow_definition: workflows.get(workflow_type, [])
_get_workflow_definition(wt) ==
    CASE wt = "real_estate_development" ->
           << WorkflowStep("market_analysis", "real_estate_analyst",
                  "Analyze market conditions and property values for development site", {}),
              WorkflowStep("construction_planning", "construction_coordinator",
                  "Develop construction timeline and resource requirements",
                  {"market_analysis"}),
              WorkflowStep("marketing_strategy", "marketing_strategist",
                  "Create marketing strategy for property sales/leasing",
                  {"market_analysis"}) >>
      [] wt = "healthcare_facility" ->
           << WorkflowStep("regulatory_compliance", "medical_research_assistant",
                  "Review healthcare facility regulatory requirements", {}),
              WorkflowStep("facility_construction", "construction_coordinator",
                  "Plan healthcare facility construction with medical requirements",
                  {"regulatory_compliance"}),
              WorkflowStep("real_estate_evaluation", "real_estate_analyst",
                  "Evaluate real estate options for healthcare facility", {}),
              WorkflowStep("marketing_outreach", "marketing_strategist",
                  "Develop patient acquisition and community outreach strategy",
                  {"regulatory_compliance"}) >>
      [] wt = "business_expansion" ->
           << WorkflowStep("market_research", "marketing_strategist",
                  "Research target markets and competitive landscape", {}),
              WorkflowStep("location_analysis", "real_estate_analyst",
                  "Analyze potential business locations and real estate costs",
                  {"market_research"}),
              WorkflowStep("facility_planning", "construction_coordinator",
                  "Plan facility modifications and construction requirements",
                  {"location_analysis"}) >>
      [] OTHER -> << >>

(***************************************************************************)
(* Generated definitions: the workflow_steps lists _execute_workflow_steps *)
(* can be handed.  Step ids are pairwise distinct and declared in the      *)
(* order of StepIds; every graph shape over them (forward and backward     *)
(* edges, self loops, cycles, the undefined id) is generated.              *)
(***************************************************************************)
StepIds == <<"A", "B", "C">>

\* a dependency id that is the step_id of no step
UndefinedId == "X"

\* the agents whose constructor succeeds with the DomainType of base.py
RegistrableNames == {"real_estate_analyst", "construction_coordinator"}

DepSets ==
    {D \in SUBSET ({StepIds[i] : i \in 1..Len(StepIds)} \cup {UndefinedId}) :
        Cardinality(D) <= MaxDeps}

StepChoices(id) ==
    {WorkflowStep(id, a, "task of step " \o id, D) : a \in RegistrableNames, D \in DepSets}

CustomDefinitions ==
    {<<a>> : a \in StepChoices(StepIds[1])}
    \cup {<<a, b>> : a \in StepChoices(StepIds[1]), b \in StepChoices(StepIds[2])}
    \cup {<<a, b, c>> : a \in StepChoices(StepIds[1]), b \in StepChoices(StepIds[2]),
                        c \in StepChoices(StepIds[3])}

\* the caller-supplied context maps
Contexts ==
    { [location |-> [value |-> "downtown"]],
      [location |-> [value |-> "downtown"], A_result |-> [value |-> "stale"]] }

(***************************************************************************)
(* Helpers over a definition                                               *)
(***************************************************************************)
StepIdsOf(steps) == {steps[i].step_id : i \in 1..Len(steps)}

StepById(steps, id) == steps[CHOOSE i \in 1..Len(steps) : steps[i].step_id = id]

(***************************************************************************)
(* Properties of a definition                                              *)
(***************************************************************************)
\* some step lists a dependency id that is no step id of the definition
HasUndefinedDep(steps) ==
    \E i \in 1..Len(steps) : ~(steps[i].dependencies \subseteq StepIdsOf(steps))

\* the ids reachable from the ids S along dependency edges
RECURSIVE TransDeps(_, _)
TransDeps(steps, S) ==
    LET S2 == S \cup UNION {StepById(steps, d).dependencies : d \in S \cap StepIdsOf(steps)}
    IN  IF S2 = S THEN S ELSE TransDeps(steps, S2)

\* some step depends on itself, directly or transitively
HasCycle(steps) ==
    \E i \in 1..Len(steps) : steps[i].step_id \in TransDeps(steps, steps[i].dependencies)

\* acyclic, and every dependency id is defined
WellFormed(steps) == ~HasUndefinedDep(steps) /\ ~HasCycle(steps)

\* the generated definitions that are acyclic with every dependency defined
WellFormedDefinitions == {steps \in CustomDefinitions : WellFormed(steps)}

(***************************************************************************)
(* AgentRegistry (base.py)                                                 *)
(***************************************************************************)
\* the values of the members of the enum DomainType
DomainType ==
    {"white_collar", "blue_collar", "urban_planning", "real_estate", "construction", "municipal"}

\* names of agents of classes written by the user of the registry
CustomAgentNames == {"site_surveyor", "permit_clerk"}

\* names of the built-in table that a caller binds to agents of a class of
\* their own, whose constructor passes a domain the enum has
StandInNames == {"marketing_strategist", "medical_research_assistant"}

\* the domain each agent class passes to UrbanZonesAgent.__init__
AgentDomain(name) ==
    CASE name = "real_estate_analyst" -> "white_collar"
      [] name = "construction_coordinator" -> "blue_collar"
      [] name = "site_surveyor" -> "construction"
      [] name = "permit_clerk" -> "white_collar"
      [] name = "marketing_strategist" -> "urban_planning"
      [] name = "medical_research_assistant" -> "municipal"
      [] OTHER -> None

\* the agents appended to the domain lists so far that carry the name
InstancesOf(name) ==
    Cardinality(UNION {{<<d, i>> : i \in {j \in 1..Len(_domain_agents[d]) :
                                            _domain_agents[d][j].name = name}} :
                       d \in DomainType})

\* a newly constructed agent; serial tells the instances of a class apart
NewAgent(name) ==
    [name |-> name, domain |-> AgentDomain(name), serial |-> InstancesOf(name) + 1]

\* AgentRegistry.get_agent: self._agents.get(name)
get_agent(name) == IF name \in DOMAIN _agents THEN _agents[name] ELSE None

\* AgentRegistry.list_all_agents: list(self._agents.values()), as the set of
\* the values of a dict whose values are distinct objects
list_all_agents == {_agents[name] : name \in DOMAIN _agents}

\* AgentRegistry.get_domain_summary
get_domain_summary ==
    [d \in DomainType |->
        [agent_count |-> Len(_domain_agents[d]),
         agents |-> [i \in 1..Len(_domain_agents[d]) |-> _domain_agents[d][i].name]]]

\* UrbanZonesAgent.add_task_result: self._task_history.append(result)
add_task_result(name, r) ==
    [_task_history EXCEPT ![name] = Append(@, r)]

\* a registration that keeps the agent already stored under the name
register_agent_KeepFirst(agent) ==
    /\ _agents' = _agents @@ (agent.name :> agent)
    /\ _domain_agents' = [_domain_agents EXCEPT ![agent.domain] = Append(@, agent)]

\* AgentRegistry.register_agent: self._agents[agent.name] = agent;
\* self._domain_agents[agent.domain].append(agent)
register_agent(agent) ==
    /\ _agents' = (agent.name :> agent) @@ _agents
    /\ _domain_agents' = [_domain_agents EXCEPT ![agent.domain] = Append(@, agent)]

\* the two tables of a registry after register_agent(agent)
RegistryAfter(registry, agent) ==
    [_agents |-> (agent.name :> agent) @@ registry._agents,
     _domain_agents |-> [registry._domain_agents EXCEPT ![agent.domain] = Append(@, agent)]]

\* for agent in agents: agent_registry.register_agent(agent)
RECURSIVE RegisterEach(_, _)
RegisterEach(registry, agents) ==
    IF agents = << >>
    THEN registry
    ELSE RegisterEach(RegistryAfter(registry, Head(agents)), Tail(agents))

\* an agent is constructed (its history is empty) and passed to register_agent
RegisterAgent(name) ==
    /\ pc = "idle"
    /\ InstancesOf(name) < MaxInstances
    /\ register_agent(NewAgent(name))
    /\ _task_history' = (name :> << >>) @@ _task_history
    /\ UNCHANGED <<workflow_history, pc, workflow_type, workflow_steps, context,
                   step_results, completed_steps, tasks, running, blocked_on,
                   invoked, result, bootstrap, step_order, task_result, waves, calls>>

(***************************************************************************)
(* register_all_agents (agents/__init__.py), called when the package is    *)
(* imported                                                                *)
(***************************************************************************)
\* the attribute access DomainType.<member>: the value of the member, or
\* AttributeError for a name the enum does not define
DomainTypeMember(member) ==
    CASE member = "WHITE_COLLAR" -> [raised |-> FALSE, value |-> "white_collar"]
      [] member = "BLUE_COLLAR" -> [raised |-> FALSE, value |-> "blue_collar"]
      [] member = "URBAN_PLANNING" -> [raised |-> FALSE, value |-> "urban_planning"]
      [] member = "REAL_ESTATE" -> [raised |-> FALSE, value |-> "real_estate"]
      [] member = "CONSTRUCTION" -> [raised |-> FALSE, value |-> "construction"]
      [] member = "MUNICIPAL" -> [raised |-> FALSE, value |-> "municipal"]
      [] OTHER -> [raised |-> TRUE, error_type |-> "AttributeError", message |-> member]

\* the classes instantiated in the list of register_all_agents, in order,
\* with the name and the DomainType member each __init__ passes on
BuiltinAgentClasses ==
    <<[name |-> "real_estate_analyst", domain |-> "WHITE_COLLAR"],
      [name |-> "construction_coordinator", domain |-> "BLUE_COLLAR"],
      [name |-> "marketing_strategist", domain |-> "CREATIVE"],
      [name |-> "medical_research_assistant", domain |-> "HEALTHCARE"]>>

\* the constructor of the class raises
ConstructorRaises(class) == DomainTypeMember(class.domain).raised

\* register_all_agents(): the list of the four new agents is built first; a
\* constructor that raises ends the call before the loop over the list
RegisterAllAgents ==
    /\ pc = "idle"
    /\ bootstrap = "not_run"
    /\ IF \E i \in 1..Len(BuiltinAgentClasses) : ConstructorRaises(BuiltinAgentClasses[i])
       THEN /\ bootstrap' = "raised"
            /\ UNCHANGED <<_agents, _domain_agents, _task_history>>
       ELSE LET agents == [i \in 1..Len(BuiltinAgentClasses) |->
                            [name |-> BuiltinAgentClasses[i].name,
                             domain |-> DomainTypeMember(BuiltinAgentClasses[i].domain).value,
                             serial |-> InstancesOf(BuiltinAgentClasses[i].name) + 1]]
                after == RegisterEach([_agents |-> _agents,
                                       _domain_agents |-> _domain_agents], agents)
            IN  /\ _agents' = after._agents
                /\ _domain_agents' = after._domain_agents
                /\ _task_history' =
                      [n \in {agents[i].name : i \in 1..Len(agents)} |-> << >>]
                      @@ _task_history
                /\ bootstrap' = "done"
    /\ UNCHANGED <<workflow_history, pc, workflow_type, workflow_steps, context,
                   step_results, completed_steps, tasks, running, blocked_on,
                   invoked, result, step_order, task_result, waves, calls>>

(***************************************************************************)
(* The executor: UrbanZonesAgent.execute_task.  An implementation returns  *)
(* a successful TaskResult, returns the failed TaskResult of its except    *)
(* branch, or lets an exception escape.                                    *)
(***************************************************************************)
\* confidence in hundredths
TaskResultOk(agent, task, ctx) ==
    [success |-> TRUE,
     data |-> [analysis_type |-> task],
     confidence |-> 80,
     metadata |-> [task_type |-> "general", agent |-> agent.name, domain |-> agent.domain]]

TaskResultFailed(agent, task, ctx) ==
    [success |-> FALSE,
     data |-> [error |-> task],
     confidence |-> 0,
     metadata |-> [error_type |-> "Exception"]]

(***************************************************************************)
(* The built-in agents (white_collar/real_estate_analyst.py and            *)
(* blue_collar/construction_coordinator.py).  A call that can raise is an  *)
(* operator whose value is Returned(v) or Raised(type, message).  Of the   *)
(* data of an analysis the model keeps the entries that are constants of   *)
(* the source; confidences are in hundredths.                              *)
(***************************************************************************)
Returned(v) == [raised |-> FALSE, value |-> v]

Raised(type, message) == [raised |-> TRUE, error_type |-> type, message |-> message]

\* the keywords of the two _identify_task_type tables that are substrings of
\* task.lower(), for the task strings of the model
KeywordsIn(task) ==
    CASE task = "Analyze market conditions and property values for development site"
            -> {"value", "market"}
      [] task = "Develop construction timeline and resource requirements" -> {"timeline"}
      [] task = "Calculate the return, then the cash flow" -> {"return", "cash flow"}
      [] task = "What is this property worth?" -> {"worth"}
      [] task = "Research the market trend" -> {"market", "trend", "research"}
      [] task = "Create marketing strategy for property sales/leasing" -> {"market"}
      [] task = "Research target markets and competitive landscape" -> {"market", "research"}
      [] OTHER -> {}

\* re.findall(r'\$?[\d,]+\.?\d*', text): the matches in the task strings of
\* the model (a lone comma matches)
FindNumbers(text) ==
    CASE text = "Calculate the return, then the cash flow" -> <<",">>
      [] OTHER -> << >>

\* float(s.replace('$', '').replace(',', '')) on a match of FindNumbers
ToFloat(s) ==
    IF s = ","
    THEN Raised("ValueError", "could not convert string to float: ''")
    ELSE Returned(s)

\* _extract_number: the first match as a float, or None
_extract_number(text) ==
    IF FindNumbers(text) # << >> THEN ToFloat(Head(FindNumbers(text))) ELSE Returned(None)

\* any(keyword in task_lower for keyword in keywords)
AnyKeyword(task, keywords) == KeywordsIn(task) \cap keywords # {}

\* _identify_task_type of the two agents; task.lower() raises on None
_identify_task_type(name, task) ==
    IF task = None
    THEN Raised("AttributeError", "'NoneType' object has no attribute 'lower'")
    ELSE IF name = "real_estate_analyst"
    THEN Returned(
        CASE AnyKeyword(task, {"value", "valuation", "appraise", "worth"}) -> "property_valuation"
          [] AnyKeyword(task, {"market", "trend", "analysis", "research"}) -> "market_analysis"
          [] AnyKeyword(task, {"roi", "return", "investment", "cash flow"}) -> "roi_calculation"
          [] AnyKeyword(task, {"zoning", "compliance", "regulation", "permit"}) -> "zoning_compliance"
          [] OTHER -> "general_analysis")
    ELSE Returned(
        CASE AnyKeyword(task, {"schedule", "timeline", "planning", "sequence"}) -> "project_scheduling"
          [] AnyKeyword(task, {"trade", "subcontractor", "coordinate", "crew"}) -> "trade_coordination"
          [] AnyKeyword(task, {"material", "estimate", "quantity", "procurement"}) -> "material_estimation"
          [] AnyKeyword(task, {"safety", "osha", "compliance", "regulation"}) -> "safety_compliance"
          [] AnyKeyword(task, {"quality", "inspection", "control", "testing"}) -> "quality_control"
          [] OTHER -> "general_analysis")

\* the analysis methods of RealEstateAnalystAgent, selected as in execute_task
RealEstateAnalysis(task_type, task) ==
    CASE task_type = "property_valuation" ->
            Returned([methodology |-> "Comparative Market Analysis (CMA) with recent sales data",
                      confidence |-> 85,
                      recommendations |->
                         <<"Property is fairly valued within market range",
                           "Consider recent renovations in final valuation",
                           "Monitor market trends for optimal timing">>])
      [] task_type = "market_analysis" ->
            Returned([risk_factors |->
                         <<"Interest rate sensitivity",
                           "Potential inventory increase in Q2",
                           "Economic uncertainty impact">>,
                      confidence |-> 80])
      [] task_type = "roi_calculation" ->
            IF _extract_number(task).raised
            THEN _extract_number(task)
            ELSE Returned([investment_grade |-> "B+",
                           confidence |-> 90,
                           recommendations |->
                              <<"Positive cash flow property with good returns",
                                "Consider refinancing options to improve cash flow",
                                "Factor in appreciation potential for total returns">>])
      [] task_type = "zoning_compliance" ->
            Returned([compliance_status |-> "compliant", confidence |-> 75])
      [] OTHER ->
            Returned([analysis_type |-> "general_consultation",
                      task_summary |-> task,
                      recommendations |->
                         <<"Consider conducting a comprehensive market analysis",
                           "Evaluate financing options and interest rates",
                           "Review property condition and inspection requirements",
                           "Assess neighborhood amenities and future development">>,
                      confidence |-> 70])

\* the analysis methods of ConstructionCoordinatorAgent
ConstructionAnalysis(task_type, task) ==
    CASE task_type = "project_scheduling" ->
            Returned([risk_factors |->
                         <<"Weather delays (winter construction)",
                           "Material delivery delays",
                           "Inspection scheduling conflicts">>,
                      confidence |-> 88])
      [] task_type = "trade_coordination" -> Returned([confidence |-> 85])
      [] task_type = "material_estimation" ->
            Returned([waste_factor |-> "10% added to all quantities", confidence |-> 82])
      [] task_type = "safety_compliance" -> Returned([confidence |-> 90])
      [] task_type = "quality_control" -> Returned([confidence |-> 87])
      [] OTHER ->
            Returned([analysis_type |-> "general_construction_consultation",
                      task_summary |-> task,
                      recommendations |->
                         <<"Develop detailed project schedule with critical path analysis",
                           "Coordinate all trades early in planning phase",
                           "Implement comprehensive safety program",
                           "Establish quality control checkpoints",
                           "Plan material procurement and delivery schedule">>,
                      confidence |-> 75])

\* the body of the try block up to `result`
Analysis(name, task) ==
    LET task_type == _identify_task_type(name, task)
    IN  IF task_type.raised THEN task_type
        ELSE IF name = "real_estate_analyst"
             THEN RealEstateAnalysis(task_type.value, task)
             ELSE ConstructionAnalysis(task_type.value, task)

\* the default of result.get("confidence", ...) in the two execute_task
DefaultConfidence(name) == IF name = "real_estate_analyst" THEN 80 ELSE 85

\* dict.get(key, default)
DictGet(d, key, default) == IF key \in DOMAIN d THEN d[key] ELSE default

\* the classes that derive from Exception; KeyboardInterrupt and
\* asyncio.CancelledError derive from BaseException only
ExceptionClasses == {"AttributeError", "ValueError", "KeyError", "TypeError", "ZeroDivisionError"}

\* an except clause that names ValueError only
Catches_ValueErrorOnly(error_type) == error_type = "ValueError"

\* `except Exception as e`
Catches(error_type) == error_type \in ExceptionClasses

\* an executor whose confidence drops with every result in its history
execute_task_Tiring(agent, task, ctx) ==
    Returned([success |-> TRUE,
              data |-> [task_summary |-> task],
              confidence |-> 80 - Len(_task_history[agent.name]),
              metadata |-> [task_type |-> "general_analysis",
                            agent |-> agent.name,
                            domain |-> agent.domain]])

\* execute_task of a built-in agent: Returned(TaskResult), or the Raised
\* value of an exception the except clause does not catch
execute_task(agent, task, ctx) ==
    LET analysis == Analysis(agent.name, task)
    IN  IF ~analysis.raised
        THEN Returned([success |-> TRUE,
                       data |-> analysis.value,
                       confidence |-> DictGet(analysis.value, "confidence",
                                              DefaultConfidence(agent.name)),
                       metadata |-> [task_type |-> _identify_task_type(agent.name, task).value,
                                     agent |-> agent.name,
                                     domain |-> agent.domain]])
        ELSE IF Catches(analysis.error_type)
        THEN Returned([success |-> FALSE,
                       data |-> [error |-> analysis.message],
                       confidence |-> 0,
                       metadata |-> [error_type |-> analysis.error_type]])
        ELSE analysis

\* an executor that records the result of its except branch as well
HistoryAfter_EveryResult(agent, task, ctx) ==
    LET outcome == execute_task(agent, task, ctx)
    IN  IF ~outcome.raised
        THEN add_task_result(agent.name, outcome.value)
        ELSE _task_history

\* the history of the agent after the call: self.add_task_result(task_result)
\* is on the success path only
HistoryAfter(agent, task, ctx) ==
    LET outcome == execute_task(agent, task, ctx)
    IN  IF ~outcome.raised /\ outcome.value.success
        THEN add_task_result(agent.name, outcome.value)
        ELSE _task_history

\* the task arguments of the direct calls
AgentTasks ==
    {None,
     "task of step A",
     "What is this property worth?",
     "Research the market trend",
     "Calculate the return, then the cash flow",
     "Develop construction timeline and resource requirements"}

\* a caller awaits agent.execute_task(task, context) on a registered agent
ExecuteTask(name, task, ctx) ==
    /\ pc = "idle"
    /\ name \in DOMAIN _agents
    /\ Len(_task_history[name]) < MaxHistory
    /\ task_result' = execute_task(_agents[name], task, ctx)
    /\ _task_history' = HistoryAfter(_agents[name], task, ctx)
    /\ UNCHANGED <<_agents, workflow_history, pc, workflow_type, workflow_steps, context,
                   step_results, completed_steps, tasks, running, blocked_on,
                   invoked, result, _domain_agents, bootstrap, step_order, waves, calls>>

(***************************************************************************)
(* MultiDomainOrchestrator._execute_workflow_steps and _enhance_context    *)
(***************************************************************************)
\* the key f"{dep_step_id}_result"
ResultKey(dep_step_id) == dep_step_id \o "_result"

\* an enrichment that passes on only the data of the dependencies that succeeded
_enhance_context_SuccessfulOnly(step, original_context, previous_results) ==
    LET present == {d \in step.dependencies \cap DOMAIN previous_results :
                        previous_results[d].success}
        added == [k \in {ResultKey(d) : d \in present} |->
                    LET d == CHOOSE d \in present : ResultKey(d) = k
                    IN  previous_results[d].data]
    IN  added @@ original_context

\* an enrichment that passes on the data of every step recorded so far
_enhance_context_AllPrevious(step, original_context, previous_results) ==
    LET present == DOMAIN previous_results
        added == [k \in {ResultKey(d) : d \in present} |->
                    LET d == CHOOSE d \in present : ResultKey(d) = k
                    IN  previous_results[d].data]
    IN  added @@ original_context

\* _enhance_context: original_context.copy(), then one entry per dependency
\* id that is in previous_results (a later assignment replaces an equal key)
_enhance_context(step, original_context, previous_results) ==
    LET present == step.dependencies \cap DOMAIN previous_results
        added == [k \in {ResultKey(d) : d \in present} |->
                    LET d == CHOOSE d \in present : ResultKey(d) = k
                    IN  previous_results[d].data]
    IN  added @@ original_context

\* a readiness test that forgets the dependencies
IsReady_IgnoringDependencies(step, completed) ==
    step.step_id \notin completed

\* a readiness test that forgets which steps are completed
IsReady_Again(step, completed) ==
    \A dep \in step.dependencies : dep \in completed

\* the condition of the ready_steps comprehension for one step
IsReady(step, completed) ==
    /\ step.step_id \notin completed
    /\ \A dep \in step.dependencies : dep \in completed

\* a scan that hands out one ready step per iteration
ReadySteps_OneAtATime(steps, completed) ==
    LET ready == SelectSeq(steps, LAMBDA step : IsReady(step, completed))
    IN  IF ready = << >> THEN << >> ELSE <<Head(ready)>>

\* ready_steps: the steps of the definition that are ready, in declaration order
ReadySteps(steps, completed) ==
    SelectSeq(steps, LAMBDA step : IsReady(step, completed))

\* `if agent:` on the value of self.registry.get_agent(step.agent_name)
HasAgent(step) == step.agent_name \in DOMAIN _agents

\* an enrichment that writes into the map it was given
OriginalContextAfter_WrittenInPlace(step, original_context, previous_results) ==
    _enhance_context(step, original_context, previous_results)

\* the map passed as original_context once _enhance_context has returned:
\* line 231 copies it and lines 234-240 write into the copy
OriginalContextAfter(step, original_context, previous_results) ==
    original_context

\* the for loop of lines 211-218 over the ready steps whose agent is
\* registered: the (step_id, coroutine) pairs appended to tasks, and the
\* caller's map as the _enhance_context calls leave it.  A coroutine object
\* holds the agent, the task and the enhanced context; its body has not started
RECURSIVE DispatchWave(_, _, _)
DispatchWave(dispatched, ctx, previous_results) ==
    IF dispatched = << >>
    THEN [tasks |-> << >>, context |-> ctx]
    ELSE LET step == Head(dispatched)
             rest == DispatchWave(Tail(dispatched),
                                  OriginalContextAfter(step, ctx, previous_results),
                                  previous_results)
         IN  [tasks |-> <<[step_id |-> step.step_id,
                           agent |-> get_agent(step.agent_name),
                           task |-> step.task_description,
                           context |-> _enhance_context(step, ctx, previous_results)]>>
                        \o rest.tasks,
              context |-> rest.context]

\* tasks: one (step_id, coroutine) pair per ready step whose agent is registered
BuildTasks(ready_steps, ctx, previous_results) ==
    DispatchWave(SelectSeq(ready_steps, HasAgent), ctx, previous_results).tasks

\* the caller's context map after the wave has been dispatched
ContextAfterWave(ready_steps, ctx, previous_results) ==
    DispatchWave(SelectSeq(ready_steps, HasAgent), ctx, previous_results).context

\* the while condition: len(completed_steps) < len(workflow_steps)
LoopCondition == Cardinality(completed_steps) < Len(workflow_steps)

\* execute_workflow up to the first iteration of the loop, on the built-in
\* definition table
ExecuteWorkflow(wt, ctx) ==
    /\ pc = "idle"
    /\ workflow_type' = wt
    /\ context' = ctx
    /\ workflow_steps' = _get_workflow_definition(wt)
    /\ step_results' = EmptyDict
    /\ step_order' = << >>
    /\ completed_steps' = {}
    /\ waves' = << >>
    /\ calls' = calls + 1
    /\ pc' = "loop"
    /\ UNCHANGED <<_agents, _task_history, workflow_history, tasks, running, blocked_on, invoked, result,
                   _domain_agents, bootstrap, task_result>>

\* the same with the table entry of REAL_ESTATE_DEVELOPMENT replaced by a
\* generated definition
ExecuteWorkflowOn(steps, ctx) ==
    /\ pc = "idle"
    /\ workflow_type' = "real_estate_development"
    /\ context' = ctx
    /\ workflow_steps' = steps
    /\ step_results' = EmptyDict
    /\ step_order' = << >>
    /\ completed_steps' = {}
    /\ waves' = << >>
    /\ calls' = calls + 1
    /\ pc' = "loop"
    /\ UNCHANGED <<_agents, _task_history, workflow_history, tasks, running, blocked_on, invoked, result,
                   _domain_agents, bootstrap, task_result>>

\* one pass over lines 199-218: the loop test, the readiness scan, the break,
\* and the creation of the wave's coroutine objects
LoopHead ==
    /\ pc = "loop"
    /\ IF ~LoopCondition \/ ReadySteps(workflow_steps, completed_steps) = << >>
       THEN /\ pc' = "summary"
            /\ tasks' = << >>
            /\ context' = context
            /\ waves' = waves
       ELSE /\ tasks' = BuildTasks(ReadySteps(workflow_steps, completed_steps),
                                   context, step_results)
            /\ context' = ContextAfterWave(ReadySteps(workflow_steps, completed_steps),
                                           context, step_results)
            /\ waves' = IF tasks' = << >>
                        THEN waves
                        ELSE Append(waves, [i \in 1..Len(tasks') |-> tasks'[i].step_id])
            /\ pc' = "await"
    /\ UNCHANGED <<_agents, _task_history, workflow_history, workflow_type, workflow_steps,
                   step_results, completed_steps, running, blocked_on, invoked, result,
                   _domain_agents, bootstrap, step_order, task_result, calls>>

\* `result = await task` reaches the first coroutine not yet awaited: its
\* body starts; the later coroutines of the wave are not scheduled
AwaitTask ==
    /\ pc = "await"
    /\ running = None
    /\ tasks # << >>
    /\ running' = Head(tasks).step_id
    /\ invoked' = invoked \cup {Head(tasks).step_id}
    /\ UNCHANGED <<_agents, _task_history, workflow_history, pc, workflow_type, workflow_steps, context,
                   step_results, completed_steps, tasks, blocked_on, result,
                   _domain_agents, bootstrap, step_order, task_result, waves, calls>>

\* a loop that counts a step as completed only when its result is successful
TaskReturns_CompletedOnSuccess(ok) ==
    /\ pc = "await"
    /\ running # None
    /\ blocked_on = None \/ blocked_on \in invoked
    /\ LET t == Head(tasks)
           r == IF ok THEN TaskResultOk(t.agent, t.task, t.context)
                      ELSE TaskResultFailed(t.agent, t.task, t.context)
       IN  /\ step_results' = (t.step_id :> r) @@ step_results
           /\ step_order' = IF t.step_id \in DOMAIN step_results
                            THEN step_order ELSE Append(step_order, t.step_id)
           /\ completed_steps' = IF ok THEN completed_steps \cup {t.step_id}
                                       ELSE completed_steps
           /\ _task_history' =
                IF ok THEN add_task_result(t.agent.name, r) ELSE _task_history
    /\ tasks' = Tail(tasks)
    /\ running' = None
    /\ blocked_on' = None
    /\ UNCHANGED <<_agents, workflow_history, pc, workflow_type, workflow_steps, context,
                   invoked, result, _domain_agents, bootstrap, task_result, waves, calls>>

\* the awaited coroutine returns a TaskResult (a successful one has been
\* added to the agent's history by execute_task): lines 222-224
TaskReturns(ok) ==
    /\ pc = "await"
    /\ running # None
    /\ blocked_on = None \/ blocked_on \in invoked
    /\ LET t == Head(tasks)
           r == IF ok THEN TaskResultOk(t.agent, t.task, t.context)
                      ELSE TaskResultFailed(t.agent, t.task, t.context)
       IN  /\ step_results' = (t.step_id :> r) @@ step_results
           /\ step_order' = IF t.step_id \in DOMAIN step_results
                            THEN step_order ELSE Append(step_order, t.step_id)
           /\ completed_steps' = completed_steps \cup {t.step_id}
           /\ _task_history' =
                IF ok THEN add_task_result(t.agent.name, r) ELSE _task_history
    /\ tasks' = Tail(tasks)
    /\ running' = None
    /\ blocked_on' = None
    /\ UNCHANGED <<_agents, workflow_history, pc, workflow_type, workflow_steps, context,
                   invoked, result, _domain_agents, bootstrap, task_result, waves, calls>>

\* the awaited coroutine raises: the exception leaves _execute_workflow_steps
TaskRaises ==
    /\ pc = "await"
    /\ running # None
    /\ blocked_on = None \/ blocked_on \in invoked
    /\ pc' = "except"
    /\ running' = None
    /\ blocked_on' = None
    /\ UNCHANGED <<_agents, _task_history, workflow_history, workflow_type, workflow_steps, context,
                   step_results, completed_steps, tasks, invoked, result,
                   _domain_agents, bootstrap, step_order, task_result, waves, calls>>

\* the awaited coroutine is execute_task of a built-in agent: what it returns
\* is recorded as in TaskReturns, what it lets escape leaves the loop as in
\* TaskRaises
AgentTaskCompletes ==
    /\ pc = "await"
    /\ running # None
    /\ LET t == Head(tasks)
           outcome == execute_task(t.agent, t.task, t.context)
       IN  IF outcome.raised
           THEN /\ pc' = "except"
                /\ UNCHANGED <<step_results, step_order, completed_steps, _task_history, tasks>>
           ELSE /\ step_results' = (t.step_id :> outcome.value) @@ step_results
                /\ step_order' = IF t.step_id \in DOMAIN step_results
                                 THEN step_order ELSE Append(step_order, t.step_id)
                /\ completed_steps' = completed_steps \cup {t.step_id}
                /\ _task_history' = HistoryAfter(t.agent, t.task, t.context)
                /\ tasks' = Tail(tasks)
                /\ pc' = pc
    /\ running' = None
    /\ UNCHANGED <<_agents, workflow_history, workflow_type, workflow_steps, context,
                   blocked_on, invoked, result, _domain_agents, bootstrap, task_result, waves,
                   calls>>

\* the for loop over tasks is exhausted: back to the while test
WaveDone ==
    /\ pc = "await"
    /\ running = None
    /\ tasks = << >>
    /\ pc' = "loop"
    /\ UNCHANGED <<_agents, _task_history, workflow_history, workflow_type, workflow_steps, context,
                   step_results, completed_steps, tasks, running, blocked_on, invoked, result,
                   _domain_agents, bootstrap, step_order, task_result, waves, calls>>

\* the running executor suspends until the executor of another step of the
\* definition has started and signalled it
TaskBlocks(target) ==
    /\ pc = "await"
    /\ running # None
    /\ blocked_on = None
    /\ target \in StepIdsOf(workflow_steps) \ {running}
    /\ blocked_on' = target
    /\ UNCHANGED <<_agents, _task_history, workflow_history, pc, workflow_type, workflow_steps, context,
                   step_results, completed_steps, tasks, running, invoked, result,
                   _domain_agents, bootstrap, step_order, task_result, waves, calls>>

(***************************************************************************)
(* The end of execute_workflow                                             *)
(***************************************************************************)
\* all(result.success for result in step_results.values())
AllSucceeded(results) == \A id \in DOMAIN results : results[id].success

\* sum(1 for result in step_results.values() if result.success)
SuccessfulSteps(results) == Cardinality({id \in DOMAIN results : results[id].success})

\* seq[:n]
Prefix(seq, n) == SubSeq(seq, 1, IF Len(seq) < n THEN Len(seq) ELSE n)

\* the values of the dict in the order of its keys
RECURSIVE SumConfidence(_, _)
SumConfidence(results, order) ==
    IF order = << >> THEN 0
    ELSE results[Head(order)].confidence + SumConfidence(results, Tail(order))

RECURSIVE GCD(_, _)
GCD(a, b) == IF b = 0 THEN a ELSE GCD(b, a % b)

\* the number n / d, kept as a fraction in lowest terms
Quotient(n, d) == [num |-> n \div GCD(n, d), den |-> d \div GCD(n, d)]

\* two decimal digits
TwoDigits(n) == IF n < 10 THEN "0" \o ToString(n) ELSE ToString(n)

\* f"{x:.2f}" of a confidence x given in hundredths
FormatConfidence(hundredths) ==
    ToString(hundredths \div 100) \o "." \o TwoDigits(hundredths % 100)

\* a percentage that drops the digits after the first decimal
FormatSuccessRate_Truncating(successful_steps, total_steps) ==
    LET tenths == (1000 * successful_steps) \div total_steps
    IN  ToString(tenths \div 10) \o "." \o ToString(tenths % 10) \o "%"

\* f"{(successful_steps/total_steps)*100:.1f}%": the percentage rounded to
\* one decimal (a tie between two decimals needs total_steps >= 16)
FormatSuccessRate(successful_steps, total_steps) ==
    LET tenths == (2000 * successful_steps + total_steps) \div (2 * total_steps)
    IN  ToString(tenths \div 10) \o "." \o ToString(tenths % 10) \o "%"

\* _extract_key_insights: per successful step, in dict order, the confidence
\* line and the first two recommendations; the first five in all
RECURSIVE KeyInsightsOf(_, _)
KeyInsightsOf(results, order) ==
    IF order = << >> THEN << >>
    ELSE LET step_id == Head(order)
             r == results[step_id]
             line == IF r.success /\ "confidence" \in DOMAIN r.data
                     THEN <<step_id \o ": High confidence analysis ("
                                    \o FormatConfidence(r.data.confidence) \o ")">>
                     ELSE << >>
             recs == IF r.success /\ "recommendations" \in DOMAIN r.data
                     THEN Prefix(r.data.recommendations, 2)
                     ELSE << >>
         IN  line \o recs \o KeyInsightsOf(results, Tail(order))

_extract_key_insights(results, order) == Prefix(KeyInsightsOf(results, order), 5)

\* _identify_synergies: the first three of a fixed list
_identify_synergies ==
    <<"Real estate and construction analysis alignment ensures feasible development timeline",
      "Marketing insights inform construction design for target market appeal",
      "Regulatory compliance requirements integrated into construction planning">>

\* a collection that takes the risk_factors of failed steps as well
RECURSIVE StepRisks_AnyResult(_, _)
StepRisks_AnyResult(results, order) ==
    IF order = << >> THEN << >>
    ELSE LET r == results[Head(order)]
         IN  (IF "risk_factors" \in DOMAIN r.data
              THEN Prefix(r.data.risk_factors, 2) ELSE << >>)
             \o StepRisks_AnyResult(results, Tail(order))

\* the first two risk_factors of every successful step, in dict order
RECURSIVE StepRisks(_, _)
StepRisks(results, order) ==
    IF order = << >> THEN << >>
    ELSE LET r == results[Head(order)]
         IN  (IF r.success /\ "risk_factors" \in DOMAIN r.data
              THEN Prefix(r.data.risk_factors, 2) ELSE << >>)
             \o StepRisks(results, Tail(order))

\* _identify_risks: the step risks, then the cross-domain risks; the first five
_identify_risks(results, order) ==
    Prefix(StepRisks(results, order)
           \o <<"Coordination challenges between multiple specialized teams",
                "Timeline dependencies may create bottlenecks",
                "Budget allocation across domains requires careful management">>, 5)

\* _assess_business_impact: constants of the source (the overall score is
\* (85 + 70 + 90 + 60) / 4)
_assess_business_impact ==
    [overall_impact_score |-> Quotient(85 + 70 + 90 + 60, 4),
     impact_breakdown |-> [efficiency_gain |-> 85, risk_reduction |-> 70,
                           decision_quality |-> 90, time_savings |-> 60],
     roi_projection |-> "250-300% over 12 months",
     strategic_value |-> "High - enables data-driven decision making across domains"]

\* _generate_workflow_summary; step_results is the map with the order of its
\* keys; average_confidence is in hundredths
_generate_workflow_summary(wt, results, order) ==
    LET successful_steps == SuccessfulSteps(results)
        total_steps == Len(order)
    IN  [workflow_type |-> wt,
         execution_summary |->
            [total_steps |-> total_steps,
             successful_steps |-> successful_steps,
             success_rate |-> IF total_steps > 0
                              THEN FormatSuccessRate(successful_steps, total_steps)
                              ELSE "0%",
             average_confidence |-> IF order # << >>
                                    THEN Quotient(SumConfidence(results, order), Len(order))
                                    ELSE Quotient(0, 1)],
         key_insights |-> _extract_key_insights(results, order),
         cross_domain_synergies |-> _identify_synergies,
         risk_factors |-> _identify_risks(results, order),
         business_impact |-> _assess_business_impact]

\* the list _generate_recommendations starts from
GenericRecommendations ==
    <<"Implement integrated project management system for cross-domain coordination",
      "Establish regular cross-functional team meetings for alignment",
      "Develop standardized reporting templates for consistent communication",
      "Create shared dashboard for real-time project visibility",
      "Invest in training for multi-domain collaboration skills">>

\* a contribution that takes every recommendation of the step
StepRecommendations_Unlimited(r) ==
    IF r.success /\ "recommendations" \in DOMAIN r.data
    THEN r.data.recommendations
    ELSE << >>

\* what one result adds: lines 354-355
StepRecommendations(r) ==
    IF r.success /\ "recommendations" \in DOMAIN r.data
    THEN Prefix(r.data.recommendations, 2)
    ELSE << >>

\* the loop of lines 353-355 over step_results.values()
RECURSIVE DomainRecommendations(_, _)
DomainRecommendations(results, order) ==
    IF order = << >> THEN << >>
    ELSE StepRecommendations(results[Head(order)])
         \o DomainRecommendations(results, Tail(order))

\* a list that shrinks with every result already in workflow_history
_generate_recommendations_Adaptive(wt, results, order) ==
    Prefix(GenericRecommendations \o DomainRecommendations(results, order),
           8 - Len(workflow_history))

\* _generate_recommendations: recommendations[:8]
_generate_recommendations(wt, results, order) ==
    Prefix(GenericRecommendations \o DomainRecommendations(results, order), 8)

\* lines 76-93: the WorkflowResult of the normal path
NormalResult(wt, results, order) ==
    [workflow_type |-> wt,
     success |-> AllSucceeded(results),
     step_results |-> results,
     summary |-> _generate_workflow_summary(wt, results, order),
     recommendations |-> _generate_recommendations(wt, results, order)]

\* lines 95-105: the WorkflowResult built by the except handler
ExceptionResult(wt) ==
    [workflow_type |-> wt,
     success |-> FALSE,
     step_results |-> EmptyDict,
     summary |-> [error |-> "Exception"],
     recommendations |-> <<"Review workflow configuration and try again">>]

\* _execute_workflow_steps has returned step_results: build the result,
\* append it to workflow_history, return it
ReturnResult ==
    /\ pc = "summary"
    /\ result' = NormalResult(workflow_type, step_results, step_order)
    /\ workflow_history' = Append(workflow_history, result')
    /\ pc' = "returned"
    /\ UNCHANGED <<_agents, _task_history, workflow_type, workflow_steps, context, step_results,
                   completed_steps, tasks, running, blocked_on, invoked,
                   _domain_agents, bootstrap, step_order, task_result, waves, calls>>

\* an except handler that records the failed WorkflowResult as well
HandleException_Recording ==
    /\ pc = "except"
    /\ result' = ExceptionResult(workflow_type)
    /\ workflow_history' = Append(workflow_history, result')
    /\ pc' = "returned"
    /\ UNCHANGED <<_agents, _task_history, workflow_type, workflow_steps, context,
                   step_results, completed_steps, tasks, running, blocked_on, invoked,
                   _domain_agents, bootstrap, step_order, task_result, waves, calls>>

\* the except handler: a failed WorkflowResult, not appended to the history
HandleException ==
    /\ pc = "except"
    /\ result' = ExceptionResult(workflow_type)
    /\ pc' = "returned"
    /\ UNCHANGED <<_agents, _task_history, workflow_history, workflow_type, workflow_steps, context,
                   step_results, completed_steps, tasks, running, blocked_on, invoked,
                   _domain_agents, bootstrap, step_order, task_result, waves, calls>>

\* the caller awaits execute_workflow again with the same workflow kind and
\* the same context map
ExecuteWorkflowAgain ==
    /\ pc = "returned"
    /\ Len(workflow_history) < MaxCalls
    /\ step_results' = EmptyDict
    /\ step_order' = << >>
    /\ completed_steps' = {}
    /\ tasks' = << >>
    /\ invoked' = {}
    /\ waves' = << >>
    /\ calls' = calls + 1
    /\ pc' = "loop"
    /\ UNCHANGED <<_agents, _task_history, workflow_history, workflow_type, workflow_steps, context,
                   running, blocked_on, result, _domain_agents, bootstrap, task_result>>

\* UrbanZonesAgent.get_performance_metrics of the agent registered under the
\* name (execution times are not modelled)
get_performance_metrics(name) ==
    LET history == _task_history[name]
        successful_tasks == Len(SelectSeq(history, LAMBDA r : r.success))
    IN  IF history = << >>
        THEN [tasks_completed |-> 0,
              success_rate |-> Quotient(0, 1),
              average_confidence |-> Quotient(0, 1)]
        ELSE [tasks_completed |-> Len(history),
              success_rate |-> Quotient(successful_tasks, Len(history)),
              average_confidence |->
                  Quotient(SumConfidence(history, [i \in 1..Len(history) |-> i]),
                           Len(history))]

\* the caller awaits execute_workflow once more, with any workflow kind and
\* context, after the call before it has returned on either path
ExecuteWorkflowNext(wt, ctx) ==
    /\ pc = "returned"
    /\ calls < MaxCalls
    /\ workflow_type' = wt
    /\ context' = ctx
    /\ workflow_steps' = _get_workflow_definition(wt)
    /\ step_results' = EmptyDict
    /\ step_order' = << >>
    /\ completed_steps' = {}
    /\ tasks' = << >>
    /\ invoked' = {}
    /\ waves' = << >>
    /\ calls' = calls + 1
    /\ pc' = "loop"
    /\ UNCHANGED <<_agents, _task_history, workflow_history, running, blocked_on, result,
                   _domain_agents, bootstrap, task_result>>

(***************************************************************************)
(* Specifications                                                          *)
(***************************************************************************)
Init ==
    /\ _agents = EmptyDict
    /\ _task_history = EmptyDict
    /\ workflow_history = << >>
    /\ pc = "idle"
    /\ workflow_type = None
    /\ workflow_steps = << >>
    /\ context = EmptyDict
    /\ step_results = EmptyDict
    /\ completed_steps = {}
    /\ tasks = << >>
    /\ running = None
    /\ blocked_on = None
    /\ invoked = {}
    /\ result = None
    /\ _domain_agents = [d \in DomainType |-> << >>]
    /\ bootstrap = "not_run"
    /\ step_order = << >>
    /\ task_result = EmptyDict
    /\ waves = << >>
    /\ calls = 0

\* the steps of the registry and of a call, once the call has started
Steps ==
    \/ \E name \in RegistrableNames : name \notin DOMAIN _agents /\ RegisterAgent(name)
    \/ LoopHead
    \/ AwaitTask
    \/ \E ok \in BOOLEAN : TaskReturns(ok)
    \/ TaskRaises
    \/ WaveDone
    \/ ReturnResult
    \/ HandleException

\* one call on any definition, with executors that return or raise
NextReturning ==
    \/ Steps
    \/ \E wt \in WorkflowType, ctx \in Contexts : ExecuteWorkflow(wt, ctx)
    \/ /\ pc = "idle"
       /\ \E steps \in CustomDefinitions, ctx \in Contexts : ExecuteWorkflowOn(steps, ctx)

\* the same, with executors that may also wait for the executor of a sibling
Next ==
    \/ NextReturning
    \/ \E target \in {StepIds[i] : i \in 1..Len(StepIds)} : TaskBlocks(target)

Spec == Init /\ [][Next]_vars

\* one call on a well-formed definition, with executors that return or raise
NextWellFormed ==
    \/ Steps
    \/ /\ pc = "idle"
       /\ \E steps \in WellFormedDefinitions, ctx \in Contexts : ExecuteWorkflowOn(steps, ctx)

\* the event loop resumes the coroutine whenever it can continue
FairSpec == Init /\ [][NextWellFormed]_vars /\ WF_vars(NextWellFormed)

\* the task descriptions of the definitions run on the built-in agents
StepTasks ==
    {"task of step A",
     "Research the market trend",
     "Calculate the return, then the cash flow"}

\* definitions of one to three steps bound to the built-in agents, each step
\* independent or depending on the step before it
AgentStepChoices(i) ==
    {WorkflowStep(StepIds[i], agent, task, deps) :
        agent \in RegistrableNames,
        task \in StepTasks,
        deps \in IF i = 1 THEN {{}} ELSE {{}, {StepIds[i - 1]}}}

AgentDefinitions ==
    {<<a>> : a \in AgentStepChoices(1)}
    \cup {<<a, b>> : a \in AgentStepChoices(1), b \in AgentStepChoices(2)}
    \cup {<<a, b, c>> : a \in AgentStepChoices(1), b \in AgentStepChoices(2),
                        c \in AgentStepChoices(3)}

\* repeated calls of one caller on the built-in agents, registered by hand
NextBuiltin ==
    \/ \E name \in RegistrableNames : name \notin DOMAIN _agents /\ RegisterAgent(name)
    \/ \E wt \in WorkflowType, ctx \in Contexts : ExecuteWorkflow(wt, ctx)
    \/ /\ pc = "idle"
       /\ \E steps \in AgentDefinitions, ctx \in Contexts : ExecuteWorkflowOn(steps, ctx)
    \/ LoopHead
    \/ AwaitTask
    \/ AgentTaskCompletes
    \/ WaveDone
    \/ ReturnResult
    \/ ExecuteWorkflowAgain

BuiltinSpec == Init /\ [][NextBuiltin]_vars

\* the import of the package, registrations by hand, and calls on the
\* built-in definition table
NextBoot ==
    \/ RegisterAllAgents
    \/ \E name \in RegistrableNames : name \notin DOMAIN _agents /\ RegisterAgent(name)
    \/ \E wt \in WorkflowType, ctx \in Contexts : ExecuteWorkflow(wt, ctx)
    \/ LoopHead
    \/ AwaitTask
    \/ AgentTaskCompletes
    \/ WaveDone
    \/ ReturnResult

BootSpec == Init /\ [][NextBoot]_vars

\* one call on the built-in table or on a well-formed generated definition,
\* on a registry the caller filled by hand, stand-in agents included, with
\* executors that return or raise
NextTable ==
    \/ \E name \in RegistrableNames \cup StandInNames :
          name \notin DOMAIN _agents /\ RegisterAgent(name)
    \/ \E wt \in WorkflowType, ctx \in Contexts : ExecuteWorkflow(wt, ctx)
    \/ /\ pc = "idle"
       /\ \E steps \in WellFormedDefinitions, ctx \in Contexts : ExecuteWorkflowOn(steps, ctx)
    \/ LoopHead
    \/ AwaitTask
    \/ \E ok \in BOOLEAN : TaskReturns(ok)
    \/ TaskRaises
    \/ WaveDone
    \/ ReturnResult
    \/ HandleException

TableSpec == Init /\ [][NextTable]_vars

\* a sequence of calls on the built-in table, on a registry the caller
\* filled by hand, with executors that return or raise
NextCalls ==
    \/ \E name \in RegistrableNames \cup StandInNames :
          name \notin DOMAIN _agents /\ RegisterAgent(name)
    \/ \E wt \in WorkflowType, ctx \in Contexts : ExecuteWorkflow(wt, ctx)
    \/ \E wt \in WorkflowType, ctx \in Contexts : ExecuteWorkflowNext(wt, ctx)
    \/ LoopHead
    \/ AwaitTask
    \/ \E ok \in BOOLEAN : TaskReturns(ok)
    \/ TaskRaises
    \/ WaveDone
    \/ ReturnResult
    \/ HandleException

CallsSpec == Init /\ [][NextCalls]_vars

\* the failed TaskResult of an executor of the caller's own that keeps what
\* its analysis had found before it failed
PartialFailure(agent, task) ==
    [success |-> FALSE,
     data |-> [error |-> "survey interrupted",
               confidence |-> 40,
               recommendations |-> <<"Repeat the survey of the northern boundary",
                                     "Order a second soil sample">>,
               risk_factors |-> <<"Unsurveyed boundary", "Unknown soil condition">>],
     confidence |-> 0,
     metadata |-> [error_type |-> "SurveyError"]]

\* the executor and the task of a step whose result the summary is built from
SummaryCases ==
    {[agent_name |-> "real_estate_analyst", task |-> "task of step A"],
     [agent_name |-> "real_estate_analyst", task |-> "Research the market trend"],
     [agent_name |-> "real_estate_analyst", task |-> "Calculate the return, then the cash flow"],
     [agent_name |-> "construction_coordinator",
      task |-> "Develop construction timeline and resource requirements"],
     [agent_name |-> "site_surveyor", task |-> "task of step A"]}

\* the agent registered under the name
RegisteredAgent(name) == [name |-> name, domain |-> AgentDomain(name), serial |-> 1]

\* the TaskResult the step's executor returned
CaseResult(case) ==
    IF case.agent_name \in RegistrableNames
    THEN execute_task(RegisteredAgent(case.agent_name), case.task, EmptyDict).value
    ELSE PartialFailure(RegisteredAgent(case.agent_name), case.task)

\* the successful results of the agent among the results, in order
CaseHistory(name, cases) ==
    LET mine == SelectSeq(cases, LAMBDA c : c.agent_name = name /\ CaseResult(c).success)
    IN  [i \in 1..Len(mine) |-> CaseResult(mine[i])]

\* _execute_workflow_steps has returned the results of one to three
\* independent steps, run in one wave
SummaryInit ==
    \E n \in 1..Len(StepIds) : \E cases \in [1..n -> SummaryCases] :
        LET ids == {StepIds[i] : i \in 1..n}
            names == RegistrableNames \cup CustomAgentNames
        IN  /\ _agents = [name \in names |-> RegisteredAgent(name)]
            /\ _domain_agents =
                  [d \in DomainType |->
                      SelectSeq(<<RegisteredAgent("real_estate_analyst"),
                                  RegisteredAgent("construction_coordinator"),
                                  RegisteredAgent("site_surveyor"),
                                  RegisteredAgent("permit_clerk")>>,
                                LAMBDA a : a.domain = d)]
            /\ _task_history = [name \in names |-> CaseHistory(name, cases)]
            /\ workflow_history = << >>
            /\ pc = "summary"
            /\ workflow_type = "real_estate_development"
            /\ workflow_steps = [i \in 1..n |->
                                    WorkflowStep(StepIds[i], cases[i].agent_name,
                                                 cases[i].task, {})]
            /\ context = EmptyDict
            /\ step_results = [id \in ids |->
                                  CaseResult(cases[CHOOSE i \in 1..n : StepIds[i] = id])]
            /\ completed_steps = ids
            /\ tasks = << >>
            /\ running = None
            /\ blocked_on = None
            /\ invoked = ids
            /\ result = None
            /\ bootstrap = "not_run"
            /\ step_order = SubSeq(StepIds, 1, n)
            /\ task_result = EmptyDict
            /\ waves = <<SubSeq(StepIds, 1, n)>>
            /\ calls = 1

\* the summary and the recommendations are built and the result returned
NextSummary == ReturnResult

SummarySpec == SummaryInit /\ [][NextSummary]_vars

\* any sequence of register_agent calls on one registry
NextRegistry ==
    \E name \in RegistrableNames \cup CustomAgentNames : RegisterAgent(name)

RegistrySpec == Init /\ [][NextRegistry]_vars

\* direct calls of execute_task on built-in agents registered by hand
NextAgent ==
    \/ \E name \in RegistrableNames : RegisterAgent(name)
    \/ \E name \in RegistrableNames, task \in AgentTasks, ctx \in Contexts :
          ExecuteTask(name, task, ctx)

AgentSpec == Init /\ [][NextAgent]_vars

(***************************************************************************)
(* Predicates used by the claims                                           *)
(***************************************************************************)
\* the result is the explicit failure built by the except handler
IsFatal(r) == "error" \in DOMAIN r.summary

DepsOf(id) == StepById(workflow_steps, id).dependencies

(***************************************************************************)
(* C1: during a call no executor has started, and no enhanced context has  *)
(* been built, for a step one of whose dependencies has no TaskResult      *)
(* recorded in step_results.                                               *)
(***************************************************************************)
C1_DependenciesFirst ==
    /\ \A id \in invoked : DepsOf(id) \subseteq DOMAIN step_results
    /\ \A i \in 1..Len(tasks) : DepsOf(tasks[i].step_id) \subseteq DOMAIN step_results

\* a step that has dependencies has been started
C1_Witness == \E id \in invoked : DepsOf(id) # {}

(***************************************************************************)
(* C2: for an acyclic definition whose dependency ids are all defined, the *)
(* call terminates, whatever executor names the steps carry, and a result  *)
(* that is no fatal error covers every step of the definition.             *)
(***************************************************************************)
C2_Terminates ==
    (pc = "loop" /\ WellFormed(workflow_steps))
        ~> (pc = "returned"
            /\ (~IsFatal(result) => completed_steps = StepIdsOf(workflow_steps)))

\* the running executor waits for a step dispatched in the same wave
WaitsForSibling ==
    /\ pc = "await"
    /\ running # None
    /\ \E i \in 1..Len(tasks) : tasks[i].step_id = blocked_on

(***************************************************************************)
(* C3: when the running executor of a wave waits for the executor of a     *)
(* sibling of the same wave to start, the workflow is not stuck: some step *)
(* of the call can still be taken, whichever of the two was declared       *)
(* first.                                                                  *)
(***************************************************************************)
C3_SiblingsRunTogether == WaitsForSibling => ENABLED Next

(***************************************************************************)
(* C4: a ready step whose agent_name is not registered gets a failed       *)
(* TaskResult (success false, confidence 0, an error kind in the metadata) *)
(* in step_results, unless the call ends in the except handler first.      *)
(***************************************************************************)
C4_MissingExecutorFails ==
    \A i \in 1..Len(StepIds) :
        (/\ pc = "loop"
         /\ i <= Len(workflow_steps)
         /\ ~HasAgent(workflow_steps[i])
         /\ IsReady(workflow_steps[i], completed_steps))
        ~> (\/ pc = "returned" /\ IsFatal(result)
            \/ /\ StepIds[i] \in DOMAIN step_results
               /\ ~step_results[StepIds[i]].success
               /\ step_results[StepIds[i]].confidence = 0
               /\ "error_type" \in DOMAIN step_results[StepIds[i]].metadata)

(***************************************************************************)
(* C5: the success flag of every returned WorkflowResult is the            *)
(* conjunction of the success flags of the entries of its step_results.    *)
(***************************************************************************)
C5_SuccessIsConjunction ==
    pc = "returned" => (result.success <=> AllSucceeded(result.step_results))

(***************************************************************************)
(* C6: when a step lists a dependency id that is no step id of the         *)
(* definition, no executor is invoked during the call and the call ends    *)
(* with the explicit failure.                                              *)
(***************************************************************************)
C6_UndefinedDependencyRejected ==
    (pc # "idle" /\ HasUndefinedDep(workflow_steps))
        => /\ invoked = {}
           /\ pc = "returned" => IsFatal(result)

(***************************************************************************)
(* C7: when the dependency relation has a cycle, no step is executed, not  *)
(* even one outside the cycle, and the call ends with the explicit         *)
(* failure.                                                                *)
(***************************************************************************)
C7_CycleRejected ==
    (pc # "idle" /\ HasCycle(workflow_steps))
        => /\ invoked = {}
           /\ step_results = EmptyDict
           /\ pc = "returned" => IsFatal(result)

(***************************************************************************)
(* C8: a call with a workflow kind that has no definition ends with the    *)
(* explicit failure, never with a WorkflowResult whose success is true.    *)
(***************************************************************************)
C8_UnknownKindFails ==
    (pc = "returned" /\ workflow_type \in {"marketing_campaign", "construction_project"})
        => (IsFatal(result) /\ ~result.success)

(***************************************************************************)
(* C9: a returned WorkflowResult that is not the explicit failure has a    *)
(* TaskResult for every step of the definition: a scan that finds no ready *)
(* step while steps remain never ends in a normal, partial result.         *)
(***************************************************************************)
C9_NoPartialResult ==
    (pc = "returned" /\ ~IsFatal(result))
        => DOMAIN result.step_results = StepIdsOf(workflow_steps)

\* the context the claim describes for the step id
ClaimedContext(id) ==
    [k \in DOMAIN context \cup {d \o "_result" : d \in DepsOf(id)} |->
        IF \E d \in DepsOf(id) : k = d \o "_result"
        THEN step_results[CHOOSE d \in DepsOf(id) : k = d \o "_result"].data
        ELSE context[k]]

(***************************************************************************)
(* C10: the context of every dispatched step is the caller's context       *)
(* with, for each dependency id d of the step, the key "<d>_result" bound  *)
(* to the data of the TaskResult recorded for d, and nothing else.         *)
(***************************************************************************)
C10_ContextIsEnriched ==
    \A i \in 1..Len(tasks) : tasks[i].context = ClaimedContext(tasks[i].step_id)

\* {A: [], B: [], C: [A, B]}: the context of C holds A_result and B_result
C10_Witness ==
    /\ Len(workflow_steps) = 3
    /\ workflow_steps[1].dependencies = {}
    /\ workflow_steps[2].dependencies = {}
    /\ workflow_steps[3].dependencies = {"A", "B"}
    /\ Len(tasks) = 1
    /\ tasks[1].step_id = "C"
    /\ tasks[1].context["A_result"] = step_results["A"].data
    /\ tasks[1].context["B_result"] = step_results["B"].data
    /\ "A_result" \in DOMAIN context
    /\ running = "C"

(***************************************************************************)
(* C11: an executor that raises costs only its own step: when the call has *)
(* returned, the result of every step that completed is in the returned    *)
(* step_results unchanged, and the step whose executor was started and did *)
(* not complete has a TaskResult there with success = FALSE.               *)
(***************************************************************************)
C11_FaultIsContained ==
    pc = "returned" =>
        /\ \A id \in completed_steps :
              /\ id \in DOMAIN result.step_results
              /\ result.step_results[id] = step_results[id]
        /\ \A id \in invoked \ completed_steps :
              /\ id \in DOMAIN result.step_results
              /\ ~result.step_results[id].success

(***************************************************************************)
(* C12: execute_task of a built-in agent always returns a TaskResult, no   *)
(* exception leaves it; when the analysis inside it raises, the TaskResult *)
(* has success = FALSE, confidence 0 and a non-empty error_type entry in   *)
(* its metadata.                                                           *)
(***************************************************************************)
C12_ExecuteTaskIsTotal ==
    [][\A name \in RegistrableNames, task \in AgentTasks, ctx \in Contexts :
          ExecuteTask(name, task, ctx) =>
              /\ ~task_result'.raised
              /\ Analysis(name, task).raised =>
                    /\ ~task_result'.value.success
                    /\ task_result'.value.confidence = 0
                    /\ "error_type" \in DOMAIN task_result'.value.metadata
                    /\ task_result'.value.metadata.error_type # ""]_vars

\* the ROI analysis of the real-estate agent raised ValueError on "," and
\* None.lower() raised in the construction agent: both came back as results
C12_Witness ==
    /\ task_result # EmptyDict
    /\ ~task_result.raised
    /\ ~task_result.value.success
    /\ task_result.value.metadata.error_type \in {"ValueError", "AttributeError"}
    /\ \E name \in DOMAIN _task_history : Len(_task_history[name]) > 0

\* the two step_results maps have the same keys and, per key, TaskResults
\* with equal success, data and confidence
SameOutcome(r1, r2) ==
    /\ DOMAIN r1 = DOMAIN r2
    /\ \A id \in DOMAIN r1 :
          /\ r1[id].success = r2[id].success
          /\ r1[id].data = r2[id].data
          /\ r1[id].confidence = r2[id].confidence

(***************************************************************************)
(* C13: calls of execute_workflow with the same workflow kind and the same *)
(* context on deterministic executors return step_results with the same    *)
(* keys and, per step, equal success, data and confidence, whatever the    *)
(* earlier calls appended to the agents' histories and workflow_history.   *)
(***************************************************************************)
C13_RepeatableResults ==
    \A i, j \in 1..Len(workflow_history) :
        SameOutcome(workflow_history[i].step_results, workflow_history[j].step_results)

\* the second call has returned a successful and a failed step, on agents
\* whose histories hold the results of the first call
C13_Witness ==
    /\ Len(workflow_history) = 2
    /\ pc = "returned"
    /\ \E id \in DOMAIN workflow_history[2].step_results :
          workflow_history[2].step_results[id].success
    /\ \E id \in DOMAIN workflow_history[2].step_results :
          ~workflow_history[2].step_results[id].success
    /\ \E name \in DOMAIN _task_history : Len(_task_history[name]) >= 2

\* every key of the context of a dispatched step is a key of the caller's
\* map or the result key of one of the step's own dependencies, and a key
\* that is not such a result key holds the caller's value
OwnEnrichmentOnly ==
    \A i \in 1..Len(tasks) :
        LET own == {ResultKey(d) : d \in DepsOf(tasks[i].step_id)}
        IN  \A k \in DOMAIN tasks[i].context :
                /\ k \in DOMAIN context \cup own
                /\ k \notin own => tasks[i].context[k] = context[k]

(***************************************************************************)
(* C14: from the start of an execute_workflow call on, over any number of  *)
(* calls, the caller's context map keeps its keys and values, and the      *)
(* context of a step holds no enrichment entry other than those of the     *)
(* step's own dependencies.                                                *)
(***************************************************************************)
C14_CallerContextUntouched ==
    [][/\ pc # "idle" => context' = context
       /\ OwnEnrichmentOnly']_vars

\* the chain A <- B <- C in the second call on the same map: the context of
\* C holds B_result, not the A_result written for B, and the caller's map
\* holds neither
C14_Witness ==
    /\ Len(workflow_history) = 1
    /\ pc = "await"
    /\ Len(tasks) = 1
    /\ tasks[1].step_id = "C"
    /\ "B_result" \in DOMAIN tasks[1].context
    /\ "A_result" \notin DOMAIN tasks[1].context
    /\ DOMAIN context = {"location"}
    /\ DepsOf("B") = {"A"}

\* a name no register_agent call is made with
UnregisteredName == "unknown_agent"

(***************************************************************************)
(* C15: after any sequence of register_agent calls, get_agent of a name    *)
(* returns the agent registered last under that name, and get_agent of a   *)
(* name no agent was registered under returns None.                        *)
(***************************************************************************)
C15_LastRegistrationWins ==
    \A name \in RegistrableNames \cup CustomAgentNames \cup {UnregisteredName} :
        /\ InstancesOf(name) = 0 => get_agent(name) = None
        /\ InstancesOf(name) > 0 =>
              get_agent(name) = [name |-> name,
                                 domain |-> AgentDomain(name),
                                 serial |-> InstancesOf(name)]

\* a second agent was registered under the name of the first, in a domain
\* another agent shares, and a third name was never registered
C15_Witness ==
    /\ InstancesOf("real_estate_analyst") = 2
    /\ InstancesOf("permit_clerk") = 1
    /\ InstancesOf("site_surveyor") = 0
    /\ _agents["real_estate_analyst"].serial = 2
    /\ _domain_agents["white_collar"][1].serial = 1
    /\ _domain_agents["white_collar"][1].name = "real_estate_analyst"

\* the workflow kinds _get_workflow_definition has an entry for
BuiltinKinds == {wt \in WorkflowType : _get_workflow_definition(wt) # << >>}

(***************************************************************************)
(* C16: once register_all_agents has run, the agent_name of every step of  *)
(* every built-in workflow definition is registered, so get_agent finds an *)
(* agent for it.                                                           *)
(***************************************************************************)
C16_BuiltinAgentsRegistered ==
    bootstrap # "not_run" =>
        \A wt \in BuiltinKinds :
            \A i \in 1..Len(_get_workflow_definition(wt)) :
                HasAgent(_get_workflow_definition(wt)[i])

\* the step ids of the definition are pairwise distinct
DistinctStepIds(steps) == Cardinality(StepIdsOf(steps)) = Len(steps)

(***************************************************************************)
(* C17: the definitions _get_workflow_definition returns for               *)
(* REAL_ESTATE_DEVELOPMENT, HEALTHCARE_FACILITY and BUSINESS_EXPANSION     *)
(* have pairwise distinct step ids, list as dependencies only step ids of  *)
(* the same definition, and have no dependency cycle; so has the           *)
(* definition of every call made on the table.                             *)
(***************************************************************************)
C17_BuiltinDefinitionsWellFormed ==
    /\ \A wt \in {"real_estate_development", "healthcare_facility", "business_expansion"} :
          /\ _get_workflow_definition(wt) # << >>
          /\ DistinctStepIds(_get_workflow_definition(wt))
          /\ ~HasUndefinedDep(_get_workflow_definition(wt))
          /\ ~HasCycle(_get_workflow_definition(wt))
    /\ pc # "idle" =>
          /\ DistinctStepIds(workflow_steps)
          /\ ~HasUndefinedDep(workflow_steps)
          /\ ~HasCycle(workflow_steps)

\* a call runs on the HEALTHCARE_FACILITY definition and has dispatched the
\* one step of it whose agent is registered
C17_Witness ==
    /\ workflow_type = "healthcare_facility"
    /\ Len(workflow_steps) = 4
    /\ \E i \in 1..Len(workflow_steps) : workflow_steps[i].dependencies # {}
    /\ pc = "await"
    /\ running = "real_estate_evaluation"

\* the text "<tenths / 10>%" with one decimal
PercentText(tenths) == ToString(tenths \div 10) \o "." \o ToString(tenths % 10) \o "%"

\* the counts the summary of the returned result is about
ResultCount == Cardinality(DOMAIN result.step_results)

ResultSuccesses == SuccessfulSteps(result.step_results)

(***************************************************************************)
(* C18 as stated: in the summary of a returned result, an empty            *)
(* step_results gives success rate 0 and average confidence 0, and a       *)
(* non-empty one gives a success rate whose value is exactly the number of *)
(* successful results divided by the number of results.                    *)
(***************************************************************************)
C18_RateIsExactQuotient ==
    pc = "returned" =>
        LET es == result.summary.execution_summary
        IN  /\ ResultCount = 0 =>
                  /\ es.success_rate = "0%"
                  /\ es.average_confidence.num = 0
            /\ ResultCount > 0 =>
                  \E tenths \in 0..1000 :
                      /\ es.success_rate = PercentText(tenths)
                      /\ tenths * ResultCount = 1000 * ResultSuccesses

(***************************************************************************)
(* C18 amended: an empty step_results gives the success rate "0%" and the  *)
(* average confidence 0; a non-empty one gives as success rate the text of *)
(* the percentage 100 * successful / total rounded to one decimal place,   *)
(* and as average confidence the sum of the confidences divided by the     *)
(* number of results.                                                      *)
(***************************************************************************)
C18_RateIsRoundedPercentage ==
    pc = "returned" =>
        LET es == result.summary.execution_summary
        IN  /\ es.total_steps = ResultCount
            /\ es.successful_steps = ResultSuccesses
            /\ ResultCount = 0 =>
                  /\ es.success_rate = "0%"
                  /\ es.average_confidence.num = 0
            /\ ResultCount > 0 =>
                  /\ \E tenths \in 0..1000 :
                        /\ es.success_rate = PercentText(tenths)
                        /\ 2 * tenths * ResultCount <= 2000 * ResultSuccesses + ResultCount
                        /\ 2000 * ResultSuccesses <= 2 * tenths * ResultCount + ResultCount
                  /\ es.average_confidence.num * ResultCount
                        = es.average_confidence.den * SumConfidence(result.step_results, step_order)

\* two of three steps succeeded: the rate is the text "66.7%"
C18_Witness ==
    /\ pc = "returned"
    /\ ResultCount = 3
    /\ ResultSuccesses = 2
    /\ result.summary.execution_summary.success_rate = "66.7%"

\* no string occurs at two positions of the list
NoDuplicates(seq) ==
    \A i, j \in 1..Len(seq) : seq[i] = seq[j] => i = j

(***************************************************************************)
(* C19: the recommendations list of a returned WorkflowResult contains no  *)
(* string twice.                                                           *)
(***************************************************************************)
C19_RecommendationsDistinct ==
    pc = "returned" => NoDuplicates(result.recommendations)

\* the first two recommendations of the data of the k-th result, when that
\* result is successful and its data has recommendations
ClaimedContribution(k) ==
    LET r == result.step_results[step_order[k]]
    IN  IF r.success /\ "recommendations" \in DOMAIN r.data
        THEN SubSeq(r.data.recommendations, 1,
                    IF Len(r.data.recommendations) < 2
                    THEN Len(r.data.recommendations) ELSE 2)
        ELSE << >>

\* the generic items followed by the contributions of the first k results
RECURSIVE ClaimedRecommendations(_)
ClaimedRecommendations(k) ==
    IF k = 0
    THEN GenericRecommendations
    ELSE ClaimedRecommendations(k - 1) \o ClaimedContribution(k)

C21_SummaryIsDerivational ==
    [][ReturnResult =>
          /\ step_results' = step_results
          /\ step_order' = step_order
          /\ context' = context
          /\ result'.step_results = step_results
          /\ workflow_history' = Append(workflow_history, result')
          /\ \A i \in 1..Len(workflow_history) :
                workflow_history[i].step_results = step_results =>
                    /\ workflow_history[i].summary = result'.summary
                    /\ workflow_history[i].recommendations = result'.recommendations]_vars

\* the second call returned the output of the first from equal step_results
\* that offer recommendations and risk factors, while the histories of the
\* agents grew between the two
C21_Witness ==
    /\ pc = "returned"
    /\ Len(workflow_history) = 2
    /\ workflow_history[1].step_results = workflow_history[2].step_results
    /\ workflow_history[1].summary = workflow_history[2].summary
    /\ Len(workflow_history[2].recommendations) > Len(GenericRecommendations)
    /\ Len(workflow_history[2].summary.risk_factors) > 3
    /\ \E name \in DOMAIN _task_history : Len(_task_history[name]) >= 2

(***************************************************************************)
(* C22: the metadata of every TaskResult a built-in agent's execute_task   *)
(* returns, successful or failed, has the entries task_type and agent (the *)
(* name of the executor).                                                  *)
(***************************************************************************)
C22_MetadataNamesTaskAndAgent ==
    (task_result # EmptyDict /\ ~task_result.raised) =>
        /\ {"task_type", "agent"} \subseteq DOMAIN task_result.value.metadata
        /\ task_result.value.metadata.agent \in DOMAIN _agents

\* every step of the definition names a registered agent
AllRegistered(steps) == \A i \in 1..Len(steps) : HasAgent(steps[i])

\* the step ids dispatched in the first k iterations
DispatchedBy(k) == UNION {{waves[j][i] : i \in 1..Len(waves[j])} : j \in 1..k}

\* the iteration that dispatched the step id
WaveOf(id) == CHOOSE k \in 1..Len(waves) : \E i \in 1..Len(waves[k]) : waves[k][i] = id

\* the number of steps on the longest dependency chain that ends in the id
RECURSIVE ChainLength(_, _)
ChainLength(steps, id) ==
    LET deps == StepById(steps, id).dependencies
    IN  IF deps = {} THEN 1
        ELSE 1 + ChainLength(steps,
                    CHOOSE d \in deps : \A e \in deps : ChainLength(steps, e) <= ChainLength(steps, d))

LongestChain(steps) ==
    IF steps = << >> THEN 0
    ELSE LET id == CHOOSE a \in StepIdsOf(steps) :
                      \A b \in StepIdsOf(steps) : ChainLength(steps, b) <= ChainLength(steps, a)
         IN  ChainLength(steps, id)

(***************************************************************************)
(* C23: in a call on an acyclic definition whose dependency ids are        *)
(* defined and whose agents are all registered, a step without             *)
(* dependencies is dispatched by the first iteration, every other step by  *)
(* the iteration right after the one that dispatched (and completed) the   *)
(* last of its dependencies, no step whose dependencies were dispatched    *)
(* before an iteration is left out of it, and a call that returns on the   *)
(* normal path has made as many iterations as the longest dependency       *)
(* chain has steps.                                                        *)
(***************************************************************************)
C23_NoReadyStepWaits ==
    (pc # "idle" /\ WellFormed(workflow_steps) /\ AllRegistered(workflow_steps)) =>
        /\ \A k \in 1..Len(waves) :
              /\ waves[k] # << >>
              /\ \A i \in 1..Len(waves[k]) :
                    LET deps == DepsOf(waves[k][i])
                    IN  IF deps = {}
                        THEN k = 1
                        ELSE /\ deps \subseteq DispatchedBy(k - 1)
                             /\ \E d \in deps : WaveOf(d) = k - 1
              /\ \A id \in StepIdsOf(workflow_steps) :
                    DepsOf(id) \subseteq DispatchedBy(k - 1) => id \in DispatchedBy(k)
        /\ (pc = "returned" /\ ~IsFatal(result)) =>
              Len(waves) = LongestChain(workflow_steps)

\* A first, then B and C together although C depends on A only and B is
\* declared before it: two iterations for a longest chain of two steps
C23_Witness ==
    /\ pc = "returned"
    /\ ~IsFatal(result)
    /\ AllRegistered(workflow_steps)
    /\ waves = << <<"A">>, <<"B", "C">> >>
    /\ DepsOf("B") = {"A"}
    /\ DepsOf("C") = {"A"}
    /\ LongestChain(workflow_steps) = 2

(***************************************************************************)
(* C24: within one execute_workflow call the body of an executor starts    *)
(* only for a step no executor was started for before in the call, and     *)
(* every entry of step_results stays in the map with the TaskResult it was *)
(* recorded with until the call has returned.                              *)
(***************************************************************************)
C24_InvokedOnceRecordedOnce ==
    [][/\ AwaitTask => Head(tasks).step_id \notin invoked
       /\ pc \notin {"idle", "returned"} =>
             \A id \in DOMAIN step_results :
                 /\ id \in DOMAIN step_results'
                 /\ step_results'[id] = step_results[id]]_vars

\* three steps were started in three iterations; the failed result recorded
\* first is still there when the last one has been recorded
C24_Witness ==
    /\ pc = "summary"
    /\ invoked = {"A", "B", "C"}
    /\ Len(waves) = 3
    /\ step_order = <<"A", "B", "C">>
    /\ ~step_results["A"].success
    /\ step_results["C"].success

\* the definition of BUSINESS_EXPANSION is being executed
OnBusinessExpansion ==
    /\ workflow_type = "business_expansion"
    /\ workflow_steps = _get_workflow_definition("business_expansion")

(***************************************************************************)
(* C25: the context of a dispatched step holds, for every direct           *)
(* dependency d of the step, under "<d>_result" the data recorded for d,   *)
(* also where the caller supplied that key; for every other step of the    *)
(* definition, a transitive dependency or an unrelated completed step, it  *)
(* holds "<id>_result" only if the caller supplied the key, and then with  *)
(* the caller's value.  In BUSINESS_EXPANSION the context of               *)
(* facility_planning has location_analysis_result and no                   *)
(* market_research_result.                                                 *)
(***************************************************************************)
C25_DirectDependenciesOnly ==
    /\ \A i \in 1..Len(tasks) :
          LET id == tasks[i].step_id
              ctx == tasks[i].context
          IN  /\ \A d \in DepsOf(id) :
                    /\ ResultKey(d) \in DOMAIN ctx
                    /\ ctx[ResultKey(d)] = step_results[d].data
              /\ \A d \in StepIdsOf(workflow_steps) \ DepsOf(id) :
                    ResultKey(d) \in DOMAIN ctx =>
                        /\ ResultKey(d) \in DOMAIN context
                        /\ ctx[ResultKey(d)] = context[ResultKey(d)]
    /\ OnBusinessExpansion =>
          \A i \in 1..Len(tasks) :
              tasks[i].step_id = "facility_planning" =>
                  /\ "location_analysis_result" \in DOMAIN tasks[i].context
                  /\ "market_research_result" \notin DOMAIN tasks[i].context

\* facility_planning has been started in a BUSINESS_EXPANSION call after
\* market_research and location_analysis were recorded
C25_Witness ==
    /\ OnBusinessExpansion
    /\ running = "facility_planning"
    /\ DOMAIN step_results = {"market_research", "location_analysis"}
    /\ tasks[1].context["location_analysis_result"] = step_results["location_analysis"].data
    /\ "A_result" \in DOMAIN tasks[1].context

(***************************************************************************)
(* C26: over any sequence of execute_workflow calls, a call that ends on   *)
(* the normal path appends to workflow_history exactly the WorkflowResult  *)
(* it returns, a call that ends in the except handler returns a failed     *)
(* WorkflowResult and leaves workflow_history as it was, and no other step *)
(* changes workflow_history: the entries it held stay, in their order.     *)
(***************************************************************************)
C26_HistoryIsAppendOnly ==
    [][/\ (pc = "summary" /\ pc' = "returned") =>
              workflow_history' = Append(workflow_history, result')
       /\ (pc = "except" /\ pc' = "returned") =>
              /\ ~result'.success
              /\ workflow_history' = workflow_history
       /\ ~(pc = "summary" /\ pc' = "returned") => workflow_history' = workflow_history
       /\ Len(workflow_history') >= Len(workflow_history)
       /\ \A i \in 1..Len(workflow_history) : workflow_history'[i] = workflow_history[i]]_vars

\* the first call recorded a result with step results, the second call
\* ended in the except handler after a step was recorded, and the history
\* still holds the one result of the first
C26_Witness ==
    /\ pc = "returned"
    /\ calls = 2
    /\ IsFatal(result)
    /\ step_results # EmptyDict
    /\ Len(workflow_history) = 1
    /\ workflow_history[1].step_results # EmptyDict

\* the sum of the agent_count entries of the summary over the domains
RECURSIVE SumAgentCounts(_)
SumAgentCounts(domains) ==
    IF domains = {} THEN 0
    ELSE LET d == CHOOSE d \in domains : TRUE
         IN  get_domain_summary[d].agent_count + SumAgentCounts(domains \ {d})

(***************************************************************************)
(* C27: after any sequence of register_agent calls, repeated names         *)
(* included, every agent in a domain list is the agent get_agent returns   *)
(* for its name, no name occurs twice in the domain lists, and the         *)
(* agent_count entries of get_domain_summary add up to the length of       *)
(* list_all_agents.                                                        *)
(***************************************************************************)
C27_RegistryTablesAgree ==
    /\ \A d \in DomainType : \A i \in 1..Len(_domain_agents[d]) :
          _domain_agents[d][i] = get_agent(_domain_agents[d][i].name)
    /\ \A name \in RegistrableNames \cup CustomAgentNames : InstancesOf(name) <= 1
    /\ SumAgentCounts(DomainType) = Cardinality(list_all_agents)

(***************************************************************************)
(* C28: at the loop test, while a coroutine of the wave is awaited, and    *)
(* when _execute_workflow_steps returns, completed_steps is the key set of *)
(* step_results, and its members are step ids of the definition being      *)
(* executed.                                                               *)
(***************************************************************************)
C28_CompletedAreTheRecorded ==
    pc \in {"loop", "await", "summary"} =>
        /\ completed_steps = DOMAIN step_results
        /\ completed_steps \subseteq StepIdsOf(workflow_steps)
        /\ {step_order[i] : i \in 1..Len(step_order)} = completed_steps

\* the second coroutine of a wave is suspended in its executor after the
\* first one was recorded with a failed result, in the second iteration
C28_Witness ==
    /\ pc = "await"
    /\ running # None
    /\ Len(waves) = 2
    /\ Len(waves[2]) = 2
    /\ running = waves[2][2]
    /\ completed_steps = {waves[1][1], waves[2][1]}
    /\ ~step_results[waves[2][1]].success

\* the ids of the failed results of the returned WorkflowResult
FailedSteps == {id \in DOMAIN result.step_results : ~result.step_results[id].success}

\* the strings the data of the results of the ids offer under the key
OfferedBy(ids, key) ==
    UNION {{result.step_results[id].data[key][i] :
               i \in 1..Len(result.step_results[id].data[key])} :
           id \in {x \in ids : key \in DOMAIN result.step_results[x].data}}

\* the strings of the list
Entries(seq) == {seq[i] : i \in 1..Len(seq)}

(***************************************************************************)
(* C29: in the summary of a returned result key_insights and risk_factors  *)
(* have at most five entries each; no recommendation and no confidence     *)
(* line of a failed step is among the key_insights and no risk factor of a *)
(* failed step among the risk_factors (unless a successful step offers the *)
(* same string).                                                           *)
(***************************************************************************)
C29_InsightsAreCappedAndFromSuccesses ==
    pc = "returned" =>
        LET insights == result.summary.key_insights
            risks == result.summary.risk_factors
            succeeded == DOMAIN result.step_results \ FailedSteps
        IN  /\ Len(insights) <= 5
            /\ Len(risks) <= 5
            /\ Entries(insights) \cap OfferedBy(FailedSteps, "recommendations")
                  \subseteq OfferedBy(succeeded, "recommendations")
            /\ Entries(risks) \cap OfferedBy(FailedSteps, "risk_factors")
                  \subseteq OfferedBy(succeeded, "risk_factors")
            /\ \A id \in FailedSteps : \A i \in 1..Len(insights) :
                  "confidence" \in DOMAIN result.step_results[id].data =>
                      insights[i] # id \o ": High confidence analysis ("
                                       \o FormatConfidence(result.step_results[id].data.confidence)
                                       \o ")"

\* a failed result that carries recommendations, risk factors and a
\* confidence came first; the two successful results after it offer six
\* insights, of which five are kept
C29_Witness ==
    /\ pc = "returned"
    /\ step_order = <<"A", "B", "C">>
    /\ FailedSteps = {"A"}
    /\ OfferedBy({"A"}, "recommendations") # {}
    /\ OfferedBy({"A"}, "risk_factors") # {}
    /\ Len(KeyInsightsOf(result.step_results, step_order)) = 6
    /\ Len(result.summary.key_insights) = 5
    /\ Len(result.summary.risk_factors) = 3

\* the history of the agent registered under the name holds successful
\* results only, and its metrics report the success rate 1 unless it is empty
OnlySuccessesRecorded(name) ==
    /\ \A i \in 1..Len(_task_history[name]) : _task_history[name][i].success
    /\ \A metrics \in {get_performance_metrics(name)} :
          /\ metrics.tasks_completed = Len(_task_history[name])
          /\ metrics.tasks_completed > 0 => metrics.success_rate = Quotient(1, 1)

\* the step is a direct execute_task call: no workflow runs, nothing is
\* registered, and the call has returned its TaskResult
DirectCall ==
    /\ pc = "idle"
    /\ pc' = "idle"
    /\ _agents' = _agents
    /\ _domain_agents' = _domain_agents
    /\ bootstrap' = bootstrap
    /\ task_result' # EmptyDict
    /\ ~task_result'.raised

(***************************************************************************)
(* C30: an execute_task call that returns a successful TaskResult appends  *)
(* exactly that result to the history of the agent, a call that returns a  *)
(* failed TaskResult appends nothing, the history of an agent that stays   *)
(* registered never loses or changes an entry, and so the history of an    *)
(* agent driven through execute_task holds successful results only and     *)
(* get_performance_metrics reports the success rate 1.0 whenever           *)
(* tasks_completed > 0 (stated of every history a step creates or changes; *)
(* there is none initially).                                               *)
(***************************************************************************)
C30_HistoryOfSuccessesOnly ==
    [][/\ DirectCall =>
             IF task_result'.value.success
             THEN _task_history' =
                     [_task_history EXCEPT ![task_result'.value.metadata.agent] =
                         Append(@, task_result'.value)]
             ELSE _task_history' = _task_history
       /\ \A name \in DOMAIN _task_history :
             _agents'[name] = _agents[name] =>
                 \A i \in 1..Len(_task_history[name]) :
                     /\ i <= Len(_task_history'[name])
                     /\ _task_history'[name][i] = _task_history[name][i]
       /\ \A name \in DOMAIN _task_history' :
             (name \notin DOMAIN _task_history \/ _task_history'[name] # _task_history[name])
                 => OnlySuccessesRecorded(name)']_vars

\* after a successful call the agent was called with a task its analysis
\* fails on: the history still holds the one result, and the rate is 1
C30_Witness ==
    /\ task_result # EmptyDict
    /\ ~task_result.raised
    /\ ~task_result.value.success
    /\ \E name \in DOMAIN _task_history :
          /\ Len(_task_history[name]) = 1
          /\ get_performance_metrics(name).tasks_completed = 1
          /\ get_performance_metrics(name).success_rate = Quotient(1, 1)
          /\ task_result.value.data.error = "could not convert string to float: ''"

====
